---- MODULE Spec2Model ----
(***************************************************************************)
(* Model of tools/output_management_client/output_management_client.c:     *)
(* a one-shot client of the wlr-output-management protocol.  The client    *)
(* state (head list, mode lists, serial, done flag), every listener        *)
(* callback, the mode selector, the state-file codec, the two apply        *)
(* operations and main() are modelled; the compositor and the transport    *)
(* are the environment, whose events and results are drawn from small sets.*)
(***************************************************************************)
EXTENDS Integers, Sequences, FiniteSets, TLC

\* ------------------------------------------------------------------ bounds
MaxHeads == 2      \* head objects the compositor announces in one run
MaxModes == 2      \* mode objects the compositor announces in one run
MaxEvents == 4     \* listener callbacks dispatched in one run
MaxSerial == 1     \* configuration serials are drawn from 0..MaxSerial
MaxSelModes == 3   \* modes of a head given to the selector on its own

\* --------------------------------------------------------------- constants
NULL == 0                       \* a null object pointer
NullStr == "<NULL>"             \* a null char pointer
StatePath == "state"            \* the argument of --state-file
Names == {"a", "b"}             \* head names the compositor sends
Sizes == {<<1, 1>>, <<2, 1>>}   \* (width, height) pairs the compositor sends
Refreshes == {1}                \* refresh rates the compositor sends
Serials == 0..MaxSerial

VARIABLES
    pc,             \* position of main()
    do_fullscreen,  \* main: --fullscreen seen
    do_restore,     \* main: --restore seen
    state_file,     \* main: argument of --state-file, or NullStr
    connected,      \* state.display is a live connection
    manager,        \* state.manager is bound
    serial,         \* state.serial
    done,           \* state.done
    heads,          \* state.heads: list of head_info, most recently inserted first
    next_head,      \* id of the next head object the compositor creates
    next_mode,      \* id of the next mode object the compositor creates
    nevents,        \* listener callbacks dispatched so far
    head_gone,      \* head objects whose finished event was dispatched
    mode_gone,      \* mode objects whose finished event was dispatched
    mgr_gone,       \* the manager's finished event was dispatched
    last_done,      \* <<>> or <<serial of the last done event dispatched>>
    dirty,          \* a head or mode event was dispatched after the last done
    requests,       \* configuration requests and round-trips issued by apply_*
    file,           \* content written to the state file, as tokens; or <<NullStr>>
    entries,        \* restore entries loaded by apply_restore
    diag,           \* messages written to stderr
    rt_failed,      \* the post-apply round-trip returned < 0
    exit_code,      \* -1 while running, else the value main() returned
    sel_head,       \* selector on its own: the head given to it
    sel_out,        \* selector on its own: <<>> before the call, <<result>> after
    opened,         \* the fopen call of this run: <<>> or <<[mode, ok, tokens]>>
    cod_src,        \* codec on its own: "heads" (save, then load) or "file" (load)
    cod_pc,         \* codec on its own: "save", "load", "done"; "idle" when unused
    cod_heads,      \* codec on its own: the head list given to save_state
    cod_file,       \* codec on its own: the state file, as tokens
    cod_env,        \* codec on its own: what load_state met (fopen, calloc)
    cod_out,        \* codec on its own: <<>> before load_state, <<its list>> after
    rp_a,           \* replay: state.heads after the events in the order sent
    rp_b,           \* replay: state.heads of a second client, events reordered
    rp_q,           \* replay: per head, the events the second client has not got yet
    rp_next_head,   \* replay: id of the next head object
    rp_modes,       \* replay: rp_modes[m] is the head that announced mode m
    rp_gone,        \* replay: head and mode objects whose finished event was sent
    rp_n            \* replay: events sent so far

vars == <<pc, do_fullscreen, do_restore, state_file, connected, manager, serial,
          done, heads, next_head, next_mode, nevents, head_gone, mode_gone,
          mgr_gone, last_done, dirty, requests, file, entries, diag, rt_failed,
          exit_code, sel_head, sel_out, opened, cod_src, cod_pc, cod_heads,
          cod_file, cod_env, cod_out, rp_a, rp_b, rp_q, rp_next_head, rp_modes,
          rp_gone, rp_n>>

mainVars == <<do_fullscreen, do_restore, state_file, connected, manager>>
sinkVars == <<serial, done, heads, next_head, next_mode, nevents, head_gone,
              mode_gone, mgr_gone, last_done, dirty>>
applyVars == <<requests, file, entries, rt_failed, opened>>
selVars == <<sel_head, sel_out>>
codVars == <<cod_src, cod_pc, cod_heads, cod_file, cod_env, cod_out>>
rpVars == <<rp_a, rp_b, rp_q, rp_next_head, rp_modes, rp_gone, rp_n>>
pureVars == <<selVars, codVars, rpVars>>

\* ------------------------------------------------------------- data model
\* struct mode_info after calloc, with obj set
NewMode(m) ==
    [obj |-> m, width |-> 0, height |-> 0, refresh |-> 0, preferred |-> FALSE]

\* struct head_info after calloc, with obj set and an empty mode list
NewHead(h) ==
    [obj |-> h, name |-> NullStr, enabled |-> FALSE, current |-> NULL,
     modes |-> <<>>]

\* faulty variant: the element becomes the last of the list
wl_list_insert_mut(list, elm) == list \o <<elm>>

\* wl_list_insert(&list, &elm->link): the element becomes the first of the list
wl_list_insert(list, elm) == <<elm>> \o list

HeadObjs == {heads[i].obj : i \in DOMAIN heads}
ModeObjsOf(head) == {head.modes[j].obj : j \in DOMAIN head.modes}
ModeObjs == UNION {ModeObjsOf(heads[i]) : i \in DOMAIN heads}

\* the head_info a head listener gets as its data pointer
HeadInfo(h) == heads[CHOOSE i \in DOMAIN heads : heads[i].obj = h]

\* the head list after a head listener wrote info through its data pointer
SetHead(h, info) ==
    [i \in DOMAIN heads |-> IF heads[i].obj = h THEN info ELSE heads[i]]

\* the mode_info a mode listener gets as its data pointer
ModeInfo(m) ==
    LET i == CHOOSE i \in DOMAIN heads : m \in ModeObjsOf(heads[i])
        j == CHOOSE j \in DOMAIN heads[i].modes : heads[i].modes[j].obj = m
    IN  heads[i].modes[j]

\* the head list after a mode listener wrote info through its data pointer
SetMode(m, info) ==
    [i \in DOMAIN heads |->
        [heads[i] EXCEPT !.modes =
            [j \in DOMAIN @ |-> IF @[j].obj = m THEN info ELSE @[j]]]]

\* --------------------------------------------------- protocol event sink
\* Listener callbacks run inside wl_display_roundtrip(): in the discovery loop
\* and in the round-trip that follows the apply request.
Dispatching == pc \in {"discover", "apply_rt"} /\ nevents < MaxEvents

\* a head or mode callback ran: one more event, after the last done
ObjectEvent ==
    /\ nevents' = nevents + 1
    /\ dirty' = TRUE
    /\ UNCHANGED <<pc, exit_code, diag, serial, done, mgr_gone, last_done>>
    /\ UNCHANGED <<mainVars, applyVars, pureVars>>

mode_handle_size(m, width, height) ==
    /\ Dispatching
    /\ m \in ModeObjs \ mode_gone
    /\ heads' = SetMode(m, [ModeInfo(m) EXCEPT !.width = width, !.height = height])
    /\ ObjectEvent
    /\ UNCHANGED <<next_head, next_mode, head_gone, mode_gone>>

mode_handle_refresh(m, refresh) ==
    /\ Dispatching
    /\ m \in ModeObjs \ mode_gone
    /\ heads' = SetMode(m, [ModeInfo(m) EXCEPT !.refresh = refresh])
    /\ ObjectEvent
    /\ UNCHANGED <<next_head, next_mode, head_gone, mode_gone>>

mode_handle_preferred(m) ==
    /\ Dispatching
    /\ m \in ModeObjs \ mode_gone
    /\ heads' = SetMode(m, [ModeInfo(m) EXCEPT !.preferred = TRUE])
    /\ ObjectEvent
    /\ UNCHANGED <<next_head, next_mode, head_gone, mode_gone>>

\* the callback ignores its arguments: the mode_info stays in its head's list
mode_handle_finished(m) ==
    /\ Dispatching
    /\ m \in ModeObjs \ mode_gone
    /\ mode_gone' = mode_gone \cup {m}
    /\ ObjectEvent
    /\ UNCHANGED <<heads, next_head, next_mode, head_gone>>

head_handle_name(h, name) ==
    /\ Dispatching
    /\ h \in HeadObjs \ head_gone
    /\ heads' = SetHead(h, [HeadInfo(h) EXCEPT !.name = name])
    /\ ObjectEvent
    /\ UNCHANGED <<next_head, next_mode, head_gone, mode_gone>>

head_handle_enabled(h, enabled) ==
    /\ Dispatching
    /\ h \in HeadObjs \ head_gone
    /\ heads' = SetHead(h, [HeadInfo(h) EXCEPT !.enabled = (enabled # 0)])
    /\ ObjectEvent
    /\ UNCHANGED <<next_head, next_mode, head_gone, mode_gone>>

\* calloc_ok = FALSE: calloc returned NULL, the mode object gets no listener
head_handle_mode(h, calloc_ok) ==
    /\ Dispatching
    /\ h \in HeadObjs \ head_gone
    /\ next_mode <= MaxModes
    /\ heads' = IF calloc_ok
                 THEN SetHead(h, [HeadInfo(h) EXCEPT
                        !.modes = wl_list_insert(@, NewMode(next_mode))])
                 ELSE heads
    /\ next_mode' = next_mode + 1
    /\ ObjectEvent
    /\ UNCHANGED <<next_head, head_gone, mode_gone>>

\* the first entry of info->modes whose obj is the mode, if there is one
head_handle_current_mode(h, m) ==
    /\ Dispatching
    /\ h \in HeadObjs \ head_gone
    /\ m \in (1..(next_mode - 1)) \ mode_gone
    /\ heads' = IF m \in ModeObjsOf(HeadInfo(h))
                 THEN SetHead(h, [HeadInfo(h) EXCEPT !.current = m])
                 ELSE heads
    /\ ObjectEvent
    /\ UNCHANGED <<next_head, next_mode, head_gone, mode_gone>>

\* the callback ignores its arguments: the head_info stays in state->heads
head_handle_finished(h) ==
    /\ Dispatching
    /\ h \in HeadObjs \ head_gone
    /\ head_gone' = head_gone \cup {h}
    /\ ObjectEvent
    /\ UNCHANGED <<heads, next_head, next_mode, mode_gone>>

\* calloc_ok = FALSE: calloc returned NULL, the head object gets no listener
manager_handle_head(calloc_ok) ==
    /\ Dispatching
    /\ ~mgr_gone
    /\ next_head <= MaxHeads
    /\ heads' = IF calloc_ok THEN wl_list_insert(heads, NewHead(next_head))
                 ELSE heads
    /\ next_head' = next_head + 1
    /\ ObjectEvent
    /\ UNCHANGED <<next_mode, head_gone, mode_gone>>

manager_handle_done(s) ==
    /\ Dispatching
    /\ ~mgr_gone
    /\ serial' = s
    /\ done' = TRUE
    /\ last_done' = <<s>>
    /\ dirty' = FALSE
    /\ nevents' = nevents + 1
    /\ UNCHANGED <<pc, exit_code, diag, heads, next_head, next_mode, head_gone,
                   mode_gone, mgr_gone>>
    /\ UNCHANGED <<mainVars, applyVars, pureVars>>

manager_handle_finished ==
    /\ Dispatching
    /\ ~mgr_gone
    /\ done' = TRUE
    /\ mgr_gone' = TRUE
    /\ nevents' = nevents + 1
    /\ UNCHANGED <<pc, exit_code, diag, serial, heads, next_head, next_mode,
                   head_gone, mode_gone, last_done, dirty>>
    /\ UNCHANGED <<mainVars, applyVars, pureVars>>

\* ---------------------------------------------------------- mode selector
\* faulty variant: an equal area replaces the largest so far, too
LargerArea_mut(area, largest_area) == area >= largest_area

\* line 202: a strictly larger area replaces the largest so far
LargerArea(area, largest_area) == area > largest_area

\* faulty variant: the first entry flagged preferred stays in `preferred`
NextPreferred_mut(entry, preferred) ==
    IF entry.preferred /\ preferred = NULL THEN entry.obj ELSE preferred

\* line 198: the last entry flagged preferred stays in `preferred`
NextPreferred(entry, preferred) == IF entry.preferred THEN entry.obj ELSE preferred

\* the wl_list_for_each loop of select_fullscreen_mode, from entry i on;
\* width and height are int32 and the product is taken in int64: no overflow
RECURSIVE SelectLoop(_, _, _, _, _)
SelectLoop(modes, i, preferred, largest, largest_area) ==
    IF i > Len(modes)
    THEN IF preferred # NULL THEN preferred ELSE largest
    ELSE LET entry == modes[i]
             area == entry.width * entry.height
             larger == LargerArea(area, largest_area)
         IN  SelectLoop(modes, i + 1, NextPreferred(entry, preferred),
                        IF larger THEN entry.obj ELSE largest,
                        IF larger THEN area ELSE largest_area)

\* the obj of the mode_info returned, NULL for none
select_fullscreen_mode(head) == SelectLoop(head.modes, 1, NULL, NULL, -1)

\* ------------------------------------------------- state persistence codec
Digit == <<"0", "1", "2", "3", "4", "5", "6", "7", "8", "9">>
IntRange == -9..9

\* printf("%d") of a one-digit int
Dec(i) == IF i < 0 THEN "-" \o Digit[1 - i] ELSE Digit[i + 1]

\* what scanf("%d") does with a whole token
IsInt(tok) == \E i \in IntRange : Dec(i) = tok
StrToInt(tok) == CHOOSE i \in IntRange : Dec(i) = tok

\* printf("%s"): an empty name leaves no token on the line
NameTokens(name) == IF name = "" THEN <<>> ELSE <<name>>

CurrentMode(head) ==
    head.modes[CHOOSE j \in DOMAIN head.modes : head.modes[j].obj = head.current]

\* the wl_list_for_each loop of save_state, from head i on
RECURSIVE SaveLoop(_, _)
SaveLoop(hs, i) ==
    IF i > Len(hs) THEN <<>>
    ELSE (IF hs[i].name = NullStr \/ hs[i].current = NULL
          THEN <<>>
          ELSE NameTokens(hs[i].name) \o
               <<Dec(CurrentMode(hs[i]).width), Dec(CurrentMode(hs[i]).height),
                 Dec(CurrentMode(hs[i]).refresh)>>)
         \o SaveLoop(hs, i + 1)
\* faulty variant: a failed fopen is not reported
save_state_mut(open_ok, hs, old) ==
    IF ~open_ok THEN [ret |-> 0, content |-> old]
    ELSE [ret |-> 0, content |-> SaveLoop(hs, 1)]

\* save_state: the return value and the file's content afterwards
save_state(open_ok, hs, old) ==
    IF ~open_ok THEN [ret |-> -1, content |-> old]
    ELSE [ret |-> 0, content |-> SaveLoop(hs, 1)]

\* fscanf(fp, "%255s %d %d %d", ...) == 4 at token pos
ScanOk(tokens, pos) ==
    /\ pos + 3 <= Len(tokens)
    /\ IsInt(tokens[pos + 1]) /\ IsInt(tokens[pos + 2]) /\ IsInt(tokens[pos + 3])

\* faulty variant: a record that does not scan is skipped and the loop goes on
RECURSIVE ScanLoop_mut(_, _, _, _, _)
ScanLoop_mut(tokens, pos, n, failing, list) ==
    IF pos + 3 > Len(tokens) THEN list
    ELSE ScanLoop_mut(tokens, pos + 4, n + 1, failing,
                  IF n \in failing \/ ~ScanOk(tokens, pos) THEN list
                  ELSE wl_list_insert(list,
                         [name |-> tokens[pos],
                          width |-> StrToInt(tokens[pos + 1]),
                          height |-> StrToInt(tokens[pos + 2]),
                          refresh |-> StrToInt(tokens[pos + 3])]))

\* the while loop of load_state from token pos on; record n is dropped when
\* its calloc fails (n \in failing)
RECURSIVE ScanLoop(_, _, _, _, _)
ScanLoop(tokens, pos, n, failing, list) ==
    IF ~ScanOk(tokens, pos) THEN list
    ELSE ScanLoop(tokens, pos + 4, n + 1, failing,
                  IF n \in failing THEN list
                  ELSE wl_list_insert(list,
                         [name |-> tokens[pos],
                          width |-> StrToInt(tokens[pos + 1]),
                          height |-> StrToInt(tokens[pos + 2]),
                          refresh |-> StrToInt(tokens[pos + 3])]))
\* faulty variant: a file that cannot be opened is parsed all the same
load_state_mut(exists, tokens, failing) == ScanLoop(tokens, 1, 1, failing, <<>>)

\* load_state: an empty list when the file cannot be opened
load_state(exists, tokens, failing) ==
    IF ~exists THEN <<>> ELSE ScanLoop(tokens, 1, 1, failing, <<>>)

\* faulty variant: the first entry is returned whatever its name
find_restore_entry_mut(list, name) == IF list # <<>> THEN 1 ELSE 0

\* index of the first entry with the name, 0 for NULL
find_restore_entry(list, name) ==
    IF \E k \in DOMAIN list : list[k].name = name
    THEN CHOOSE k \in DOMAIN list :
            /\ list[k].name = name
            /\ \A l \in 1..(k - 1) : list[l].name # name
    ELSE 0

MatchesMode(entry, width, height, refresh) ==
    entry.width = width /\ entry.height = height /\ entry.refresh = refresh

\* obj of the first mode of the head with these fields, NULL for none
find_mode(head, width, height, refresh) ==
    IF \E j \in DOMAIN head.modes : MatchesMode(head.modes[j], width, height, refresh)
    THEN head.modes[CHOOSE j \in DOMAIN head.modes :
            /\ MatchesMode(head.modes[j], width, height, refresh)
            /\ \A l \in 1..(j - 1) :
                  ~MatchesMode(head.modes[l], width, height, refresh)].obj
    ELSE NULL

\* ------------------------------------------- configuration builder/applier
Req(op, a, b) == [op |-> op, a |-> a, b |-> b]

\* faulty variant: the head is set to its current mode, not to the mode chosen
EnableAndSet_mut(head, mode) ==
    <<Req("enable_head", head.obj, NULL), Req("set_mode", head.obj, head.current)>>

\* enable_head on the configuration, then set_mode on the handle it returned
EnableAndSet(head, mode) ==
    <<Req("enable_head", head.obj, NULL), Req("set_mode", head.obj, mode)>>

\* the wl_list_for_each loop of apply_fullscreen, from head i on
RECURSIVE FullscreenLoop(_, _)
FullscreenLoop(hs, i) ==
    IF i > Len(hs) THEN <<>>
    ELSE LET mode == select_fullscreen_mode(hs[i])
         IN  (IF mode = NULL THEN <<>> ELSE EnableAndSet(hs[i], mode))
             \o FullscreenLoop(hs, i + 1)

\* the mode apply_restore finds for a head, NULL when it skips the head
RestoreTarget(head, list) ==
    IF head.name = NullStr THEN NULL
    ELSE LET k == find_restore_entry(list, head.name)
         IN  IF k = 0 THEN NULL
             ELSE find_mode(head, list[k].width, list[k].height, list[k].refresh)

\* the wl_list_for_each loop of apply_restore, from head i on
RECURSIVE RestoreLoop(_, _, _)
RestoreLoop(hs, list, i) ==
    IF i > Len(hs) THEN <<>>
    ELSE LET mode == RestoreTarget(hs[i], list)
         IN  (IF mode = NULL THEN <<>> ELSE EnableAndSet(hs[i], mode))
             \o RestoreLoop(hs, list, i + 1)

\* faulty variant: the configuration is applied and never destroyed
Transaction_mut(actions) ==
    <<Req("create_configuration", serial, NULL)>> \o actions \o
    <<Req("apply", NULL, NULL), Req("roundtrip", NULL, NULL)>>

\* create_configuration ... apply, destroy, and the call of wl_display_roundtrip
Transaction(actions) ==
    <<Req("create_configuration", serial, NULL)>> \o actions \o
    <<Req("apply", NULL, NULL), Req("destroy", NULL, NULL),
      Req("roundtrip", NULL, NULL)>>

\* main returns: the process ends with this code
Return(code) ==
    /\ pc' = "exit"
    /\ exit_code' = code

\* apply_fullscreen up to its call of wl_display_roundtrip;
\* open_ok: fopen(path, "w") of save_state succeeded
apply_fullscreen(open_ok) ==
    /\ pc = "apply"
    /\ do_fullscreen
    /\ LET saved == save_state(open_ok, heads, file)
       IN  IF state_file # NullStr
           THEN /\ file' = saved.content
                /\ diag' = IF saved.ret = 0 THEN diag
                           ELSE diag \cup {"Failed to open state file"}
           ELSE UNCHANGED <<file, diag>>
    /\ opened' = IF state_file # NullStr
                  THEN <<[mode |-> "w", ok |-> open_ok, tokens |-> <<>>]>>
                  ELSE opened
    /\ requests' = requests \o Transaction(FullscreenLoop(heads, 1))
    /\ pc' = "apply_rt"
    /\ UNCHANGED <<exit_code, entries, rt_failed, mainVars, sinkVars, pureVars>>

\* apply_restore up to its call of wl_display_roundtrip, or to its early return
\* (after which main disconnects and returns 1);
\* exists, tokens: the state file as fopen(path, "r") finds it
apply_restore(exists, tokens, failing) ==
    /\ pc = "apply"
    /\ ~do_fullscreen /\ do_restore
    /\ IF state_file = NullStr
       THEN /\ diag' = diag \cup {"--restore requires --state-file"}
            /\ connected' = FALSE
            /\ Return(1)
            /\ UNCHANGED <<entries, requests>>
       ELSE LET list == load_state(exists, tokens, failing)
            IN  IF list = <<>>
                THEN /\ diag' = diag \cup {"No state entries found"}
                     /\ connected' = FALSE
                     /\ Return(1)
                     /\ UNCHANGED <<entries, requests>>
                ELSE /\ entries' = list
                     /\ requests' = requests \o
                            Transaction(RestoreLoop(heads, list, 1))
                     /\ pc' = "apply_rt"
                     /\ UNCHANGED <<diag, connected, exit_code>>
    /\ opened' = IF state_file # NullStr
                  THEN <<[mode |-> "r", ok |-> exists,
                          tokens |-> IF exists THEN tokens ELSE <<>>]>>
                  ELSE opened
    /\ UNCHANGED <<do_fullscreen, do_restore, state_file, manager, file,
                   rt_failed, sinkVars, pureVars>>

\* the round-trip of apply_* returns (its result is not looked at), the apply
\* function returns 0, main disconnects and returns that result
apply_return(rt_ok) ==
    /\ pc = "apply_rt"
    /\ rt_failed' = ~rt_ok
    /\ entries' = <<>>
    /\ connected' = FALSE
    /\ Return(0)
    /\ UNCHANGED <<do_fullscreen, do_restore, state_file, manager, requests,
                   file, opened, diag, sinkVars, pureVars>>

\* ------------------------------------------------------------------- main
ArgWords == {"--fullscreen", "--restore", "--state-file", StatePath, "-x"}
MaxArgs == 3
ArgVectors == UNION {[1..n -> ArgWords] : n \in 0..MaxArgs}

\* the for loop of main over argv[i..]; usage: print_usage and return 1
RECURSIVE ParseArgs(_, _, _)
ParseArgs(argv, i, acc) ==
    IF i > Len(argv) THEN acc
    ELSE IF argv[i] = "--fullscreen"
         THEN ParseArgs(argv, i + 1, [acc EXCEPT !.do_fullscreen = TRUE])
    ELSE IF argv[i] = "--restore"
         THEN ParseArgs(argv, i + 1, [acc EXCEPT !.do_restore = TRUE])
    ELSE IF argv[i] = "--state-file"
         THEN IF i + 1 > Len(argv)
              THEN [acc EXCEPT !.usage = TRUE]
              ELSE ParseArgs(argv, i + 2, [acc EXCEPT !.state_file = argv[i + 1]])
    ELSE [acc EXCEPT !.usage = TRUE]

NoArgs ==
    [usage |-> FALSE, do_fullscreen |-> FALSE, do_restore |-> FALSE,
     state_file |-> NullStr]
\* faulty variant: the discovery loop never looks at the done flag
LoopAgain_stuck == TRUE

\* faulty variant: the test of the discovery loop is inverted
LoopAgain_mut == done

\* line 413: the discovery loop goes round again
LoopAgain == ~done
\* faulty variant: only both flags together are a usage error
main_args_mut(argv) ==
    /\ pc = "main"
    /\ LET a == ParseArgs(argv, 1, NoArgs)
       IN  /\ do_fullscreen' = a.do_fullscreen
           /\ do_restore' = a.do_restore
           /\ state_file' = a.state_file
           /\ IF a.usage \/ (a.do_fullscreen /\ a.do_restore)
              THEN /\ diag' = diag \cup {"Usage"}
                   /\ Return(1)
              ELSE /\ pc' = "connect"
                   /\ UNCHANGED <<diag, exit_code>>
    /\ UNCHANGED <<connected, manager, sinkVars, applyVars, pureVars>>

\* main from its start to wl_display_connect
main_args(argv) ==
    /\ pc = "main"
    /\ LET a == ParseArgs(argv, 1, NoArgs)
       IN  /\ do_fullscreen' = a.do_fullscreen
           /\ do_restore' = a.do_restore
           /\ state_file' = a.state_file
           /\ IF a.usage \/ a.do_fullscreen = a.do_restore
              THEN /\ diag' = diag \cup {"Usage"}
                   /\ Return(1)
              ELSE /\ pc' = "connect"
                   /\ UNCHANGED <<diag, exit_code>>
    /\ UNCHANGED <<connected, manager, sinkVars, applyVars, pureVars>>

\* wl_display_connect, get_registry, add_listener
main_connect(ok) ==
    /\ pc = "connect"
    /\ IF ok
       THEN /\ connected' = TRUE
            /\ pc' = "registry"
            /\ UNCHANGED <<diag, exit_code>>
       ELSE /\ diag' = diag \cup {"Failed to connect to Wayland display"}
            /\ Return(1)
            /\ UNCHANGED connected
    /\ UNCHANGED <<do_fullscreen, do_restore, state_file, manager, sinkVars,
                   applyVars, pureVars>>

\* the first round-trip, in which registry_handle_global binds the manager when
\* the compositor advertises it, and the first test of the discovery loop
main_registry(advertised) ==
    /\ pc = "registry"
    /\ manager' = advertised
    /\ IF ~advertised
       THEN /\ diag' = diag \cup {"zwlr_output_manager_v1 not advertised"}
            /\ Return(1)
       ELSE /\ pc' = IF LoopAgain THEN "discover" ELSE "apply"
            /\ UNCHANGED <<diag, exit_code>>
    /\ UNCHANGED <<do_fullscreen, do_restore, state_file, connected, sinkVars,
                   applyVars, pureVars>>

\* a round-trip of the discovery loop returns, and the loop's next test
main_discover(rt_ok) ==
    /\ pc = "discover"
    /\ IF ~rt_ok
       THEN /\ diag' = diag \cup {"Wayland roundtrip failed"}
            /\ Return(1)
       ELSE /\ pc' = IF LoopAgain THEN "discover" ELSE "apply"
            /\ UNCHANGED <<diag, exit_code>>
    /\ UNCHANGED <<mainVars, sinkVars, applyVars, pureVars>>

\* state files found by --restore
StateFiles ==
    { <<>>,
      <<"a", "0", "0", "0">>,
      <<"b", "0", "0", "0">>,
      <<"a", "1", "1", "1">>,
      <<"a", "2", "1", "0", "a", "0", "0", "0">>,
      <<"a", "0", "0">>,
      <<"x", "y", "0", "0">> }

EmptyHead == NewHead(1)

\* the codec on its own is not in use
CodIdle ==
    /\ cod_src = "none" /\ cod_pc = "idle"
    /\ cod_heads = <<>> /\ cod_file = <<>>
    /\ cod_env = [exists |-> TRUE, failing |-> {}]
    /\ cod_out = <<>>

\* no event was sent to the two replaying clients
RpIdle ==
    /\ rp_a = <<>> /\ rp_b = <<>>
    /\ rp_q = [h \in 1..MaxHeads |-> <<>>]
    /\ rp_next_head = 1 /\ rp_modes = <<>>
    /\ rp_gone = [heads |-> {}, modes |-> {}]
    /\ rp_n = 0

Init ==
    /\ pc = "main"
    /\ do_fullscreen = FALSE /\ do_restore = FALSE /\ state_file = NullStr
    /\ connected = FALSE /\ manager = FALSE
    /\ serial = 0 /\ done = FALSE /\ heads = <<>>
    /\ next_head = 1 /\ next_mode = 1 /\ nevents = 0
    /\ head_gone = {} /\ mode_gone = {} /\ mgr_gone = FALSE
    /\ last_done = <<>> /\ dirty = FALSE
    /\ requests = <<>> /\ file = <<>> /\ entries = <<>>
    /\ diag = {} /\ rt_failed = FALSE /\ exit_code = -1
    /\ opened = <<>>
    /\ sel_head = EmptyHead /\ sel_out = <<>>
    /\ CodIdle
    /\ RpIdle

Next ==
    \/ \E argv \in ArgVectors : main_args(argv)
    \/ \E ok \in BOOLEAN : main_connect(ok)
    \/ \E advertised \in BOOLEAN : main_registry(advertised)
    \/ \E rt_ok \in BOOLEAN : main_discover(rt_ok)
    \/ \E calloc_ok \in BOOLEAN : manager_handle_head(calloc_ok)
    \/ \E s \in Serials : manager_handle_done(s)
    \/ manager_handle_finished
    \/ \E h \in HeadObjs, name \in Names : head_handle_name(h, name)
    \/ \E h \in HeadObjs, enabled \in {0, 1} : head_handle_enabled(h, enabled)
    \/ \E h \in HeadObjs, calloc_ok \in BOOLEAN : head_handle_mode(h, calloc_ok)
    \/ \E h \in HeadObjs, m \in 1..MaxModes : head_handle_current_mode(h, m)
    \/ \E h \in HeadObjs : head_handle_finished(h)
    \/ \E m \in ModeObjs, sz \in Sizes : mode_handle_size(m, sz[1], sz[2])
    \/ \E m \in ModeObjs, refresh \in Refreshes : mode_handle_refresh(m, refresh)
    \/ \E m \in ModeObjs : mode_handle_preferred(m)
    \/ \E m \in ModeObjs : mode_handle_finished(m)
    \/ \E open_ok \in BOOLEAN : apply_fullscreen(open_ok)
    \/ \E exists \in BOOLEAN, tokens \in StateFiles, failing \in SUBSET {1, 2} :
          apply_restore(exists, tokens, failing)
    \/ \E rt_ok \in BOOLEAN : apply_return(rt_ok)

Spec == Init /\ [][Next]_vars

\* main's own steps: every call main makes returns, round-trips included
Progress ==
    \/ pc = "main" /\ \E argv \in ArgVectors : main_args(argv)
    \/ pc = "connect" /\ \E ok \in BOOLEAN : main_connect(ok)
    \/ pc = "registry" /\ \E advertised \in BOOLEAN : main_registry(advertised)
    \/ pc = "discover" /\ main_discover(TRUE)
    \/ pc = "apply" /\ \E open_ok \in BOOLEAN : apply_fullscreen(open_ok)
    \/ pc = "apply" /\
          \E exists \in BOOLEAN, tokens \in StateFiles, failing \in SUBSET {1, 2} :
             apply_restore(exists, tokens, failing)
    \/ pc = "apply_rt" /\ \E rt_ok \in BOOLEAN : apply_return(rt_ok)

\* what ends the discovery loop: the manager's done or finished event is
\* dispatched, or a round-trip of the loop fails
Settles ==
    /\ ~done
    /\ pc \in {"discover", "apply_rt"}
    /\ \/ \E s \in Serials : manager_handle_done(s)
       \/ manager_handle_finished
       \/ main_discover(FALSE)

\* the program with a compositor that answers: main is never stopped for good,
\* and the discovery is settled or fails in the end
LiveSpec == Spec /\ WF_vars(Progress) /\ WF_vars(Settles)

\* ------------------------------------------- the mode selector on its own
SelWidths == {-1, 0, 1, 2}
SelHeights == {1, 2}
SelFields == [width : SelWidths, height : SelHeights, preferred : BOOLEAN]

\* a head whose mode list holds the n modes f; the mode inserted last is the first
SelHead(n, f) ==
    [EmptyHead EXCEPT !.modes =
        [i \in 1..n |-> [obj |-> n - i + 1, width |-> f[i].width,
                         height |-> f[i].height, refresh |-> 0,
                         preferred |-> f[i].preferred]]]

SelInit ==
    /\ pc = "main"
    /\ do_fullscreen = FALSE /\ do_restore = FALSE /\ state_file = NullStr
    /\ connected = FALSE /\ manager = FALSE
    /\ serial = 0 /\ done = FALSE /\ heads = <<>>
    /\ next_head = 1 /\ next_mode = 1 /\ nevents = 0
    /\ head_gone = {} /\ mode_gone = {} /\ mgr_gone = FALSE
    /\ last_done = <<>> /\ dirty = FALSE
    /\ requests = <<>> /\ file = <<>> /\ entries = <<>>
    /\ diag = {} /\ rt_failed = FALSE /\ exit_code = -1
    /\ \E n \in 0..MaxSelModes : \E f \in [1..n -> SelFields] :
          sel_head = SelHead(n, f)
    /\ sel_out = <<>>
    /\ opened = <<>>
    /\ CodIdle
    /\ RpIdle

\* a call of select_fullscreen_mode(head)
sel_select ==
    /\ sel_out = <<>>
    /\ sel_out' = <<select_fullscreen_mode(sel_head)>>
    /\ UNCHANGED <<pc, exit_code, diag, sel_head, mainVars, sinkVars, applyVars,
                   codVars, rpVars>>

SelNext == sel_select

SelSpec == SelInit /\ [][SelNext]_vars

\* ---------------------------------------------------- the codec on its own
MaxCodecHeads == 2   \* heads of a registry given to save_state
MaxTokens == 8       \* tokens of a state file given to load_state
CodecNames == {NullStr, "", "a", "b"}
CodecModes == {<<1, 1, 1>>, <<2, 1, 0>>, <<-1, 0, 9>>}
CodecWords == {"a", "1", "2"}
CodecFields == [name : CodecNames, mode : CodecModes, current : BOOLEAN]

\* a registry of n heads, each with one mode, which is its current mode or not
CodecRegistry(n, f) ==
    [i \in 1..n |->
        [obj |-> n - i + 1, name |-> f[i].name, enabled |-> FALSE,
         current |-> IF f[i].current THEN n - i + 1 ELSE NULL,
         modes |-> <<[obj |-> n - i + 1, width |-> f[i].mode[1],
                      height |-> f[i].mode[2], refresh |-> f[i].mode[3],
                      preferred |-> FALSE]>>]]

\* the program itself has not started and the selector is not in use
ProgramIdle ==
    /\ pc = "main"
    /\ do_fullscreen = FALSE /\ do_restore = FALSE /\ state_file = NullStr
    /\ connected = FALSE /\ manager = FALSE
    /\ serial = 0 /\ done = FALSE /\ heads = <<>>
    /\ next_head = 1 /\ next_mode = 1 /\ nevents = 0
    /\ head_gone = {} /\ mode_gone = {} /\ mgr_gone = FALSE
    /\ last_done = <<>> /\ dirty = FALSE
    /\ requests = <<>> /\ file = <<>> /\ entries = <<>>
    /\ diag = {} /\ rt_failed = FALSE /\ exit_code = -1
    /\ opened = <<>>
    /\ sel_head = EmptyHead /\ sel_out = <<>>

CodecInit ==
    /\ ProgramIdle
    /\ RpIdle
    /\ cod_env = [exists |-> TRUE, failing |-> {}]
    /\ cod_out = <<>>
    /\ \/ /\ cod_src = "heads" /\ cod_pc = "save"
          /\ cod_file = <<>>
          /\ \E n \in 0..MaxCodecHeads : \E f \in [1..n -> CodecFields] :
                cod_heads = CodecRegistry(n, f)
       \/ /\ cod_src = "file" /\ cod_pc = "load"
          /\ cod_heads = <<>>
          /\ \E n \in 0..MaxTokens : \E f \in [1..n -> CodecWords] :
                cod_file = f

\* a call of save_state(path, state) whose fopen succeeds
codec_save ==
    /\ cod_pc = "save"
    /\ cod_file' = save_state(TRUE, cod_heads, cod_file).content
    /\ cod_pc' = "load"
    /\ UNCHANGED <<pc, exit_code, diag, cod_src, cod_heads, cod_env, cod_out>>
    /\ UNCHANGED <<mainVars, sinkVars, applyVars, selVars, rpVars>>

\* a call of load_state(path)
codec_load(exists, failing) ==
    /\ cod_pc = "load"
    /\ cod_env' = [exists |-> exists, failing |-> failing]
    /\ cod_out' = <<load_state(exists, cod_file, failing)>>
    /\ cod_pc' = "done"
    /\ UNCHANGED <<pc, exit_code, diag, cod_src, cod_heads, cod_file>>
    /\ UNCHANGED <<mainVars, sinkVars, applyVars, selVars, rpVars>>

CodecNext ==
    \/ codec_save
    \/ \E exists \in BOOLEAN, failing \in SUBSET {1, 2} : codec_load(exists, failing)

CodecSpec == CodecInit /\ [][CodecNext]_vars

\* ------------------------------------- two clients replaying the events
MaxReplayEvents == 4   \* events sent to the replaying clients
ReplayNames == {"a", "b"}

\* an event as it arrives: the head it belongs to, the mode it is about, and
\* its arguments (a = 1 on head and mode: calloc succeeds in the handler)
Ev(kind, h, m, name, a, b) ==
    [kind |-> kind, h |-> h, m |-> m, name |-> name, a |-> a, b |-> b]

\* a mode listener's data pointer: what mode_handle_* do to the mode_info
ModeAfter(mode, ev) ==
    CASE ev.kind = "size" -> [mode EXCEPT !.width = ev.a, !.height = ev.b]
      [] ev.kind = "refresh" -> [mode EXCEPT !.refresh = ev.a]
      [] ev.kind = "preferred" -> [mode EXCEPT !.preferred = TRUE]
      [] OTHER -> mode

\* a head listener's data pointer: what head_handle_* do to the head_info,
\* and what a mode listener does to a mode_info in its list
HeadAfter(head, ev) ==
    CASE ev.kind = "name" -> [head EXCEPT !.name = ev.name]
      [] ev.kind = "enabled" -> [head EXCEPT !.enabled = (ev.a # 0)]
      [] ev.kind = "mode" ->
            IF ev.a = 1
            THEN [head EXCEPT !.modes = wl_list_insert(@, NewMode(ev.m))]
            ELSE head
      [] ev.kind = "current_mode" ->
            IF ev.m \in ModeObjsOf(head) THEN [head EXCEPT !.current = ev.m]
            ELSE head
      [] ev.kind = "head_finished" -> head
      [] OTHER ->
            [head EXCEPT !.modes =
                [j \in DOMAIN @ |->
                    IF @[j].obj = ev.m THEN ModeAfter(@[j], ev) ELSE @[j]]]

\* faulty variant: every listener is handed the first head_info of the list
ListenerData_mut(hs, i, ev) == i = 1

\* hs[i] is the head_info registered as the data pointer of the event's head
ListenerData(hs, i, ev) == hs[i].obj = ev.h

\* the head list after the listener of the event ran
Dispatch(hs, ev) ==
    IF ev.kind = "head"
    THEN IF ev.a = 1 THEN wl_list_insert(hs, NewHead(ev.h)) ELSE hs
    ELSE [i \in DOMAIN hs |->
            IF ListenerData(hs, i, ev) THEN HeadAfter(hs[i], ev) ELSE hs[i]]

RpLiveHeads == (1..(rp_next_head - 1)) \ rp_gone.heads
RpLiveModes == DOMAIN rp_modes \ rp_gone.modes

\* the events the compositor may send next
RpEvents ==
    {Ev("head", rp_next_head, NULL, NullStr, ok, 0) :
        ok \in IF rp_next_head <= MaxHeads THEN {0, 1} ELSE {}}
    \cup UNION {
          {Ev("name", h, NULL, name, 0, 0) : name \in ReplayNames}
          \cup {Ev("enabled", h, NULL, NullStr, e, 0) : e \in {0, 1}}
          \cup {Ev("mode", h, Len(rp_modes) + 1, NullStr, ok, 0) :
                  ok \in IF Len(rp_modes) < MaxModes THEN {0, 1} ELSE {}}
          \cup {Ev("current_mode", h, m, NullStr, 0, 0) : m \in RpLiveModes}
          \cup {Ev("head_finished", h, NULL, NullStr, 0, 0)}
          : h \in RpLiveHeads}
    \cup UNION {
          {Ev("size", rp_modes[m], m, NullStr, sz[1], sz[2]) : sz \in Sizes}
          \cup {Ev("refresh", rp_modes[m], m, NullStr, r, 0) : r \in Refreshes}
          \cup {Ev("preferred", rp_modes[m], m, NullStr, 0, 0),
                Ev("mode_finished", rp_modes[m], m, NullStr, 0, 0)}
          : m \in RpLiveModes}

\* the compositor sends an event: the first client dispatches it at once, the
\* second client gets it later, after the earlier events of the same head
rp_emit(ev) ==
    /\ rp_n < MaxReplayEvents
    /\ ev \in RpEvents
    /\ rp_a' = Dispatch(rp_a, ev)
    /\ rp_q' = [rp_q EXCEPT ![ev.h] = Append(@, ev)]
    /\ rp_next_head' = IF ev.kind = "head" THEN rp_next_head + 1 ELSE rp_next_head
    /\ rp_modes' = IF ev.kind = "mode" THEN Append(rp_modes, ev.h) ELSE rp_modes
    /\ rp_gone' = CASE ev.kind = "head_finished" ->
                         [rp_gone EXCEPT !.heads = @ \cup {ev.h}]
                    [] ev.kind = "mode_finished" ->
                         [rp_gone EXCEPT !.modes = @ \cup {ev.m}]
                    [] OTHER -> rp_gone
    /\ rp_n' = rp_n + 1
    /\ UNCHANGED <<pc, exit_code, diag, rp_b>>
    /\ UNCHANGED <<mainVars, sinkVars, applyVars, selVars, codVars>>

\* the second client dispatches the next event of head h
rp_catch(h) ==
    /\ rp_q[h] # <<>>
    /\ rp_b' = Dispatch(rp_b, Head(rp_q[h]))
    /\ rp_q' = [rp_q EXCEPT ![h] = Tail(@)]
    /\ UNCHANGED <<pc, exit_code, diag, rp_a, rp_next_head, rp_modes, rp_gone, rp_n>>
    /\ UNCHANGED <<mainVars, sinkVars, applyVars, selVars, codVars>>

ReplayInit == ProgramIdle /\ CodIdle /\ RpIdle

ReplayNext ==
    \/ \E ev \in RpEvents : rp_emit(ev)
    \/ \E h \in 1..MaxHeads : rp_catch(h)

ReplaySpec == ReplayInit /\ [][ReplayNext]_vars

\* ------------------------------------------------------------------ claims
\* the step in which apply_* creates its configuration
CreateStep ==
    /\ Len(requests') > Len(requests)
    /\ requests'[Len(requests) + 1].op = "create_configuration"

CreatedSerial == requests'[Len(requests) + 1].a

\* settled by an event: a done or a finished event was dispatched
SettledByEvent == done /\ (last_done # <<>> \/ mgr_gone)

\* C1: apply_fullscreen/apply_restore run, and a configuration is created,
\* only in a state whose done flag is true, set by a dispatched done or
\* finished event.
C1_SettledBeforeApply ==
    [][(pc = "apply" \/ requests' # requests) => SettledByEvent]_vars

C1_Witness ==
    /\ pc = "apply_rt"
    /\ \E k \in DOMAIN requests : requests[k].op = "create_configuration"
    /\ heads # <<>>
    /\ last_done # <<>>

\* C2: the serial given to create_configuration is the serial of the last
\* done event dispatched, and some done event was dispatched.
C2_SerialFromLastDone ==
    [][CreateStep => (last_done # <<>> /\ CreatedSerial = last_done[1])]_vars

\* C3: once the manager's finished event was dispatched, done is true, no
\* configuration is created in a later step, and an operation that had not
\* yet been applied ends with exit code 1.
C3_NoApplyAfterFinished ==
    [][mgr_gone =>
        /\ done
        /\ ~CreateStep
        /\ (pc \in {"discover", "apply"} /\ pc' = "exit" => exit_code' = 1)]_vars

\* C4: when the configuration is submitted, no head or mode event was
\* dispatched after the last done event.
C4_NoEventAfterLastDone ==
    [][CreateStep => ~(last_done # <<>> /\ dirty)]_vars

\* the target mode of a head in the apply operation of this run
Target(head, list) ==
    IF do_fullscreen THEN select_fullscreen_mode(head) ELSE RestoreTarget(head, list)

EnableIdx(reqs, h) == {k \in DOMAIN reqs : reqs[k].op = "enable_head" /\ reqs[k].a = h}
SetIdx(reqs, h) == {k \in DOMAIN reqs : reqs[k].op = "set_mode" /\ reqs[k].a = h}

\* C5: the transaction built holds, for every head with a target mode, one
\* enable_head followed by one set_mode with that mode, and nothing for a
\* head without a target mode or for an object that is not in the registry.
C5_TransactionMatchesTargets ==
    [][CreateStep =>
        /\ \A i \in DOMAIN heads :
              LET h == heads[i].obj
                  t == Target(heads[i], entries')
              IN  IF t = NULL
                  THEN EnableIdx(requests', h) = {} /\ SetIdx(requests', h) = {}
                  ELSE /\ Cardinality(EnableIdx(requests', h)) = 1
                       /\ Cardinality(SetIdx(requests', h)) = 1
                       /\ \A k \in EnableIdx(requests', h) :
                             /\ k + 1 \in SetIdx(requests', h)
                             /\ requests'[k + 1].b = t
        /\ \A k \in DOMAIN requests' :
              requests'[k].op \in {"enable_head", "set_mode"}
                  => requests'[k].a \in HeadObjs]_vars

C5_Witness ==
    /\ pc = "apply_rt"
    /\ \E i \in DOMAIN heads : EnableIdx(requests, heads[i].obj) # {}
    /\ \E i \in DOMAIN heads : EnableIdx(requests, heads[i].obj) = {}

OpCount(reqs, op) == Cardinality({k \in DOMAIN reqs : reqs[k].op = op})
Prefix(reqs, k) == SubSeq(reqs, 1, k)

\* C6: the requests of a run are either none, or one create_configuration,
\* then (enable_head, set_mode) pairs, then one apply, one destroy and one
\* round-trip; at no point are two configurations live.
C6_OneTransactionFinalized ==
    /\ \A k \in 0..Len(requests) :
          OpCount(Prefix(requests, k), "create_configuration")
            - OpCount(Prefix(requests, k), "destroy") \in {0, 1}
    /\ requests # <<>> =>
          LET n == Len(requests)
          IN  /\ n >= 4
              /\ requests[1].op = "create_configuration"
              /\ requests[n - 2].op = "apply"
              /\ requests[n - 1].op = "destroy"
              /\ requests[n].op = "roundtrip"
              /\ (n - 4) % 2 = 0
              /\ \A j \in 1..((n - 4) \div 2) :
                    /\ requests[2 * j].op = "enable_head"
                    /\ requests[2 * j + 1].op = "set_mode"
                    /\ requests[2 * j + 1].a = requests[2 * j].a

C6_Witness ==
    /\ pc = "exit"
    /\ OpCount(requests, "enable_head") = 1
    /\ OpCount(requests, "destroy") = 1

\* C7: a run whose post-apply round-trip failed ends with exit code 1.
C7_FailedRoundtripReported ==
    (pc = "exit" /\ rt_failed) => exit_code = 1

\* C8: a head whose finished event was dispatched is no longer in the head
\* list, and no request of a later transaction names it.
C8_RemovedHeadGone ==
    /\ head_gone \cap HeadObjs = {}
    /\ pc = "apply" => \A h \in head_gone :
            /\ EnableIdx(FullscreenLoop(heads, 1), h) = {}
            /\ \A i \in DOMAIN heads :
                  heads[i].obj = h => SaveLoop(<<heads[i]>>, 1) = <<>>

\* C9: the current mode of every head is NULL or a mode of that head whose
\* finished event was not dispatched.
C9_CurrentModeLive ==
    \A i \in DOMAIN heads :
        \/ heads[i].current = NULL
        \/ /\ heads[i].current \in ModeObjsOf(heads[i])
           /\ heads[i].current \notin mode_gone

\* the selector's input and result, once it was called
SelModes == sel_head.modes
SelArea(i) == SelModes[i].width * SelModes[i].height
SelPreferred == {i \in DOMAIN SelModes : SelModes[i].preferred}
SelMaxArea == {i \in DOMAIN SelModes : \A j \in DOMAIN SelModes : SelArea(j) <= SelArea(i)}
SelFirst(S) == CHOOSE i \in S : \A j \in S : i <= j

\* C10 as stated: none for no modes; the one mode flagged preferred; with no
\* mode flagged preferred, the first mode of maximum area in list order.
C10_SelectorAsStated ==
    sel_out # <<>> =>
        /\ SelModes = <<>> => sel_out[1] = NULL
        /\ Cardinality(SelPreferred) = 1 =>
              \A i \in SelPreferred : sel_out[1] = SelModes[i].obj
        /\ (SelModes # <<>> /\ SelPreferred = {}) =>
              sel_out[1] = SelModes[SelFirst(SelMaxArea)].obj

\* C10 amended: with no mode flagged preferred, the first mode of maximum area
\* in list order when some mode has an area >= 0, and none when every mode has
\* a negative area.
C10_SelectorNonNegativeArea ==
    sel_out # <<>> =>
        /\ SelModes = <<>> => sel_out[1] = NULL
        /\ Cardinality(SelPreferred) = 1 =>
              \A i \in SelPreferred : sel_out[1] = SelModes[i].obj
        /\ (SelPreferred = {} /\ \E i \in DOMAIN SelModes : SelArea(i) >= 0) =>
              sel_out[1] = SelModes[SelFirst(SelMaxArea)].obj
        /\ (SelPreferred = {} /\ \A i \in DOMAIN SelModes : SelArea(i) < 0) =>
              sel_out[1] = NULL

C10_Witness ==
    /\ sel_out # <<>>
    /\ SelPreferred = {}
    /\ Cardinality(SelMaxArea) >= 2
    /\ \E i \in DOMAIN SelModes : SelArea(i) < SelArea(SelFirst(SelMaxArea))
    /\ sel_out[1] = SelModes[SelFirst(SelMaxArea)].obj
    /\ sel_out[1] # NULL

SelLast(S) == CHOOSE i \in S : \A j \in S : j <= i

\* C11 as stated: with more than one mode flagged preferred, the selector
\* returns the flagged mode that comes first in the head's mode list.
C11_FirstPreferredAsStated ==
    (sel_out # <<>> /\ Cardinality(SelPreferred) > 1) =>
        sel_out[1] = SelModes[SelFirst(SelPreferred)].obj

\* C11 amended: with more than one mode flagged preferred, the selector
\* returns the flagged mode that comes last in the head's mode list; the list
\* holds the mode received last first, so this is the flagged mode received
\* first.
C11_LastPreferredInList ==
    (sel_out # <<>> /\ Cardinality(SelPreferred) > 1) =>
        /\ sel_out[1] = SelModes[SelLast(SelPreferred)].obj
        /\ \A i \in SelPreferred : SelModes[i].obj >= sel_out[1]

C11_Witness ==
    /\ sel_out # <<>>
    /\ Cardinality(SelPreferred) = 2
    /\ Len(SelModes) = 3
    /\ SelLast(SelPreferred) = 2
    /\ sel_out[1] = SelModes[2].obj

\* load_state ran on an existing file and every calloc succeeded
CodLoaded == cod_pc = "done" /\ cod_env.exists /\ cod_env.failing = {}

CodEntrySet == {<<cod_out[1][k].name, cod_out[1][k].width, cod_out[1][k].height,
                  cod_out[1][k].refresh>> : k \in DOMAIN cod_out[1]}

\* C12: after save_state and load_state the entries are exactly the
\* (name, width, height, refresh) of the heads that have a non-empty name and a
\* current mode.
C12_RoundTrip ==
    (CodLoaded /\ cod_src = "heads") =>
        CodEntrySet =
            {<<cod_heads[i].name, CurrentMode(cod_heads[i]).width,
               CurrentMode(cod_heads[i]).height, CurrentMode(cod_heads[i]).refresh>> :
             i \in {j \in DOMAIN cod_heads :
                      /\ cod_heads[j].name \notin {NullStr, ""}
                      /\ cod_heads[j].current # NULL}}

\* record r of the file: tokens 4r-3 .. 4r, a word and three ints
RecordOk(tokens, r) ==
    /\ 4 * r <= Len(tokens)
    /\ IsInt(tokens[4 * r - 2]) /\ IsInt(tokens[4 * r - 1]) /\ IsInt(tokens[4 * r])

RecordAt(tokens, r) ==
    [name |-> tokens[4 * r - 3], width |-> StrToInt(tokens[4 * r - 2]),
     height |-> StrToInt(tokens[4 * r - 1]), refresh |-> StrToInt(tokens[4 * r])]

\* the number of records of the longest prefix of records that scan
PrefixCount(tokens) ==
    CHOOSE k \in 0..(Len(tokens) \div 4) :
        /\ \A r \in 1..k : RecordOk(tokens, r)
        /\ k = Len(tokens) \div 4 \/ ~RecordOk(tokens, k + 1)

\* C13: load_state returns the records of the longest prefix of complete,
\* well-formed records, the last one first, and nothing from what follows
\* (every calloc succeeding).
C13_PrefixParse ==
    CodLoaded =>
        LET K == PrefixCount(cod_file)
        IN  /\ Len(cod_out[1]) = K
            /\ \A r \in 1..K : cod_out[1][K - r + 1] = RecordAt(cod_file, r)

C13_Witness ==
    /\ CodLoaded /\ cod_src = "file"
    /\ Len(cod_file) = 8
    /\ PrefixCount(cod_file) = 1
    /\ Len(cod_out[1]) = 1

\* the records of the parsed prefix that carry the name
NamedRecords(name) ==
    {r \in 1..PrefixCount(cod_file) : cod_file[4 * r - 3] = name}

CodLookup(name) == cod_out[1][find_restore_entry(cod_out[1], name)]

\* C14 as stated: the lookup of a name that several entries of the file carry
\* returns the entry that comes first in the file.
C14_FirstInFileAsStated ==
    CodLoaded =>
        \A name \in CodecWords :
            Cardinality(NamedRecords(name)) > 1 =>
                CodLookup(name) = RecordAt(cod_file, SelFirst(NamedRecords(name)))

\* C14 amended: the lookup of a name that several entries of the file carry
\* returns the entry that comes last in the file.
C14_LastInFile ==
    CodLoaded =>
        \A name \in CodecWords :
            Cardinality(NamedRecords(name)) > 1 =>
                CodLookup(name) = RecordAt(cod_file, SelLast(NamedRecords(name)))

C14_Witness ==
    /\ CodLoaded /\ cod_src = "file"
    /\ NamedRecords("a") = {1, 2}
    /\ RecordAt(cod_file, 1) # RecordAt(cod_file, 2)
    /\ CodLookup("a") = RecordAt(cod_file, 2)

\* a step of apply_restore in which no head carries the name of an entry
RestoreStep == pc = "apply" /\ ~do_fullscreen /\ do_restore /\ pc' # pc

NoNameMatches(hs, list) ==
    \A i \in DOMAIN hs : \A k \in DOMAIN list : list[k].name # hs[i].name

\* C15: a restore with a non-empty entry set none of whose names is the name
\* of a head creates, applies and destroys one transaction with no enable_head
\* in it, and the run ends with exit code 0.
C15_NoMatchStillApplies ==
    [][/\ (RestoreStep /\ entries' # <<>> /\ NoNameMatches(heads, entries')) =>
            /\ requests' = <<Req("create_configuration", serial, NULL),
                             Req("apply", NULL, NULL), Req("destroy", NULL, NULL),
                             Req("roundtrip", NULL, NULL)>>
            /\ pc' = "apply_rt"
            /\ diag' = diag
       /\ (pc = "apply_rt" /\ do_restore /\ pc' # pc) =>
            pc' = "exit" /\ exit_code' = 0]_vars

C15_Witness ==
    /\ pc = "exit" /\ do_restore /\ exit_code = 0
    /\ opened # <<>> /\ PrefixCount(opened[1].tokens) > 0
    /\ \E i \in DOMAIN heads : heads[i].name # NullStr /\ heads[i].modes # <<>>
    /\ \A i \in DOMAIN heads : \A r \in 1..PrefixCount(opened[1].tokens) :
          opened[1].tokens[4 * r - 3] # heads[i].name
    /\ OpCount(requests, "enable_head") = 0
    /\ OpCount(requests, "destroy") = 1

\* the file apply_restore opens is missing or unreadable, or holds no record
\* that scans from its start
NothingToParse ==
    /\ opened' # <<>>
    /\ ~opened'[1].ok \/ PrefixCount(opened'[1].tokens) = 0

\* C16: a restore without a state file, or whose file is missing, unreadable,
\* empty or malformed from its first record, ends with exit code 1 and no
\* request sent; a missing file is reported as an empty entry set like an
\* empty file.
C16_EmptyRestoreFails ==
    [][(RestoreStep /\ (state_file = NullStr \/ NothingToParse)) =>
            /\ pc' = "exit" /\ exit_code' = 1
            /\ requests' = <<>>
            /\ state_file # NullStr =>
                  diag' = diag \cup {"No state entries found"}]_vars

C16_Witness ==
    /\ pc = "exit" /\ do_restore /\ exit_code = 1
    /\ opened # <<>> /\ ~opened[1].ok
    /\ heads # <<>>
    /\ "No state entries found" \in diag
    /\ requests = <<>>

\* a step of apply_fullscreen whose save_state cannot open the state file
SaveFails ==
    /\ pc = "apply" /\ do_fullscreen /\ state_file # NullStr
    /\ opened' # <<>> /\ opened'[1].mode = "w" /\ ~opened'[1].ok

\* C17 as stated: when the state file cannot be opened for writing, no
\* configuration is created and no request is sent.
C17_SaveFailureAbortsAsStated ==
    [][SaveFails => requests' = requests /\ pc' = "exit"]_vars

\* C17 amended: when the state file cannot be opened for writing, the failure
\* is printed, the file is left as it was, the transaction is created and
\* sent all the same, and the run ends with exit code 0.
C17_SaveFailureReportedApplyRuns ==
    [][/\ SaveFails =>
            /\ "Failed to open state file" \in diag'
            /\ file' = file
            /\ CreateStep
            /\ requests' = Transaction(FullscreenLoop(heads, 1))
            /\ pc' = "apply_rt"
       /\ (pc = "apply_rt" /\ do_fullscreen /\ pc' # pc) =>
            pc' = "exit" /\ exit_code' = 0]_vars

C17_Witness ==
    /\ pc = "exit" /\ do_fullscreen /\ exit_code = 0
    /\ opened # <<>> /\ ~opened[1].ok
    /\ "Failed to open state file" \in diag
    /\ OpCount(requests, "enable_head") = 1

\* C19: when both or neither of --fullscreen and --restore were given, the
\* run ends with exit code 1 and the usage text, without a connection, an
\* event or a request.
C19_UsageErrorBeforeConnect ==
    (pc # "main" /\ do_fullscreen = do_restore) =>
        /\ pc = "exit" /\ exit_code = 1
        /\ "Usage" \in diag
        /\ ~connected /\ ~manager
        /\ nevents = 0 /\ heads = <<>>
        /\ requests = <<>> /\ opened = <<>>

C19_Witness ==
    /\ pc = "exit" /\ exit_code = 1
    /\ do_fullscreen /\ do_restore
    /\ "Usage" \in diag /\ ~connected

\* the second client has dispatched every event sent
RpCaughtUp == \A h \in DOMAIN rp_q : rp_q[h] = <<>>

\* a head list as an unordered set of heads
HeadSet(hs) == {hs[i] : i \in DOMAIN hs}

\* C18: two clients that dispatched the same events, each head's events in
\* the same order, hold the same heads: same name, enabled flag, mode list,
\* mode fields and current mode.
C18_ReplayCommutes == RpCaughtUp => HeadSet(rp_a) = HeadSet(rp_b)

C18_Witness ==
    /\ RpCaughtUp /\ rp_n = MaxReplayEvents
    /\ rp_a # rp_b
    /\ HeadSet(rp_a) = HeadSet(rp_b)
    /\ \E i \in DOMAIN rp_a : rp_a[i].modes # <<>>
    /\ \E i \in DOMAIN rp_a : rp_a[i].name # NullStr

\* C20: the discovery loop is left for the apply only with done set, a failed
\* round-trip of the loop with done unset ends the run with exit code 1 and no
\* request sent, and every run ends.
C20_DiscoveryEnds ==
    /\ [][/\ (pc = "discover" /\ pc' = "apply") => done
          /\ (pc = "discover" /\ ~done /\ pc' = "exit") =>
                /\ exit_code' = 1
                /\ requests' = <<>>
                /\ "Wayland roundtrip failed" \in diag']_vars
    /\ <>(pc = "exit")

C20_Witness ==
    /\ pc = "exit" /\ exit_code = 1
    /\ "Wayland roundtrip failed" \in diag
    /\ ~done /\ nevents > 0
    /\ requests = <<>>

====
